---------------------------- MODULE Spec2Model ----------------------------
(***************************************************************************)
(* Model of "Backup Photos Py/backup_photos.py": the incremental,          *)
(* deduplication-aware copy of a source media tree into a destination      *)
(* tree (process_photos and the functions it calls).                       *)
(*                                                                         *)
(* A file's content is a sequence of bytes.  A relative path is a small    *)
(* integer: source file p is copied to DESTINATION / p, and path 0 is a    *)
(* destination path that no source file maps to.  rsync is modelled by its *)
(* contract: on success the destination directory holds a file with the    *)
(* source's name and the source's bytes (an existing file of that name is  *)
(* replaced); on failure the destination is unchanged.  Every I/O          *)
(* operation of the script (stat, hashing, mkdir, rsync) may fail, at most *)
(* MaxFailures times in a run.                                             *)
(***************************************************************************)
EXTENDS Integers, Sequences, FiniteSets, TLC

(* ------------------------------ bounds -------------------------------- *)
MaxFiles == 3
MaxDestFiles == 1
MaxRuns == 2
MaxFailures == 1
MaxBuildFiles == 2

(* ------------------------------ data ---------------------------------- *)
SrcPaths == 1..MaxFiles
DestPaths == 0..MaxFiles
NoFile == <<>>
NoHash == -1
NoPath == -1

\* File contents the runs are tried on: two of equal size, one of another size.
Contents == { <<1>>, <<2>>, <<1, 2>> }

\* The bytes of the source files that are not media (the code never reads them).
OtherContent == <<1>>

\* Suffixes of the source files' names, as sequences of characters.
Suffixes == << <<".", "j", "p", "g">>, <<".", "J", "P", "G">>,
               <<".", "t", "x", "t">>, <<".", "P", "n", "g">> >>

Suffix(p) == Suffixes[((p - 1) % Len(Suffixes)) + 1]

VALID_EXTENSIONS ==
    { <<".", "j", "p", "g">>, <<".", "j", "p", "e", "g">>, <<".", "p", "n", "g">>,
      <<".", "h", "e", "i", "c">>, <<".", "m", "o", "v">>, <<".", "m", "p", "4">>,
      <<".", "m", "4", "v">>, <<".", "g", "i", "f">>, <<".", "r", "a", "w">>,
      <<".", "a", "a", "f">> }

LowerChar(c) ==
    CASE c = "J" -> "j" [] c = "P" -> "p" [] c = "G" -> "g" [] c = "N" -> "n"
      [] c = "T" -> "t" [] c = "X" -> "x" [] OTHER -> c

Lower(s) == [i \in DOMAIN s |-> LowerChar(s[i])]

IsMedia(p) == Lower(Suffix(p)) \in VALID_EXTENSIONS

\* st_size
Size(c) == Len(c)

\* sha256 over the bytes, fed in order; injective on Contents.
RECURSIVE DigestFrom(_, _)
DigestFrom(h, c) ==
    IF c = <<>> THEN h ELSE DigestFrom((h * 31 + Head(c)) % 65536, Tail(c))

Digest(c) == DigestFrom(7, c)

IsFile(d, q) == d[q] # NoFile
FilesOf(d) == { q \in DOMAIN d : IsFile(d, q) }
ContentsOf(d) == { d[q] : q \in FilesOf(d) }

\* All enumeration orders of a finite set (rglob / os.walk give no order).
RECURSIVE Orders(_)
Orders(S) ==
    IF S = {} THEN { <<>> }
    ELSE UNION { { <<x>> \o o : o \in Orders(S \ {x}) } : x \in S }

Put(cache, h, q) == [k \in DOMAIN cache \cup {h} |-> IF k = h THEN q ELSE cache[k]]

EmptyCache == [k \in {} |-> NoPath]

(* ------------------------- check_duplicate ---------------------------- *)
\* The scan of check_duplicate over the destination files in the order
\* `order`; src_hash is NoHash until the first size match.  statFail is the
\* destination file whose stat raises (NoPath: none), hashOk says whether
\* get_file_hash of the source succeeds.
RECURSIVE ScanDest(_, _, _, _, _, _, _, _)
ScanDest(order, d, cache, content, src_hash, hashes, statFail, hashOk) ==
    IF order = <<>>
    THEN [result |-> "False", hashes |-> hashes, hash_failed |-> FALSE]
    ELSE LET q == Head(order) IN
         IF q = statFail
         THEN [result |-> "Raise", hashes |-> hashes, hash_failed |-> FALSE]
         ELSE IF Size(d[q]) = Size(content)
         THEN IF src_hash = NoHash
              THEN IF ~hashOk
                   THEN [result |-> "False", hashes |-> hashes + 1, hash_failed |-> TRUE]
                   ELSE IF Digest(content) \in DOMAIN cache
                        THEN [result |-> "True", hashes |-> hashes + 1, hash_failed |-> FALSE]
                        ELSE ScanDest(Tail(order), d, cache, content, Digest(content),
                                      hashes + 1, statFail, hashOk)
              ELSE IF src_hash \in DOMAIN cache
                   THEN [result |-> "True", hashes |-> hashes, hash_failed |-> FALSE]
                   ELSE ScanDest(Tail(order), d, cache, content, src_hash,
                                 hashes, statFail, hashOk)
         ELSE ScanDest(Tail(order), d, cache, content, src_hash,
                       hashes, statFail, hashOk)

\* check_duplicate that hashes the source file before looking at any size.
check_duplicateEagerHash(order, d, cache, content, srcStatOk, statFail, hashOk) ==
    IF ~srcStatOk
    THEN [result |-> "Raise", hashes |-> 0, hash_failed |-> FALSE]
    ELSE IF ~hashOk
    THEN [result |-> "False", hashes |-> 1, hash_failed |-> TRUE]
    ELSE ScanDest(order, d, cache, content, Digest(content), 1, statFail, hashOk)

check_duplicate(order, d, cache, content, srcStatOk, statFail, hashOk) ==
    IF ~srcStatOk
    THEN [result |-> "Raise", hashes |-> 0, hash_failed |-> FALSE]
    ELSE ScanDest(order, d, cache, content, NoHash, 0, statFail, hashOk)

(* ------------------------------ state --------------------------------- *)
VARIABLES
    src,            \* source tree: relative path -> content
    dest,           \* destination tree: relative path -> content or NoFile
    hash_cache,     \* digest -> destination path
    pc,             \* position in process_photos
    todo,           \* destination files build_destination_hash_cache has yet to visit
    remaining,      \* source files os.walk has yet to yield
    cur,            \* src_file of the current iteration
    total_files, copied_files, skipped_files,
    run,            \* number of the current invocation
    fstate,         \* per source file: Pending, Processing, Skipped, Copied, Errored
    hfail,          \* source files whose hashing failed inside check_duplicate
    ifail,          \* source files whose hashing failed after their copy
    last_cd,        \* result record of the check_duplicate call of the step just taken
    failures,       \* number of I/O operations that have failed so far
    mounted,        \* DESTINATION exists
    library,        \* access to PHOTOS_LIBRARY: "ok", "denied" or "missing"
    originals,      \* one of the candidate originals folders exists
    exit_status,    \* exit status of the process, NoExit while it runs
    scanned         \* files build_destination_hash_cache has visited, in order

vars == <<src, dest, hash_cache, pc, todo, remaining, cur, total_files,
          copied_files, skipped_files, run, fstate, hfail, ifail, last_cd, failures,
          mounted, library, originals, exit_status, scanned>>

\* The process has not ended.
NoExit == -1
\* The status of a process that ends by reaching the end of the script.
ExitOk == 0

NoCall == [file |-> NoPath, result |-> "None", hashes |-> 0, hash_failed |-> FALSE]

Init ==
    /\ src \in { s \in [SrcPaths -> Contents] :
                   \A p \in SrcPaths : IsMedia(p) \/ s[p] = OtherContent }
    /\ mounted \in BOOLEAN
    /\ library \in {"ok", "denied", "missing"}
    /\ originals \in BOOLEAN
    /\ dest \in { d \in [DestPaths -> Contents \cup {NoFile}] :
                    /\ Cardinality(FilesOf(d)) <= MaxDestFiles
                    /\ ~mounted => FilesOf(d) = {} }
    /\ exit_status = NoExit
    /\ scanned = <<>>
    /\ hash_cache = EmptyCache
    /\ pc = "check_mount"
    /\ todo = {}
    /\ remaining = {}
    /\ cur = NoPath
    /\ total_files = 0
    /\ copied_files = 0
    /\ skipped_files = 0
    /\ run = 1
    /\ fstate = [p \in SrcPaths |-> "Pending"]
    /\ hfail = {}
    /\ ifail = {}
    /\ last_cd = NoCall
    /\ failures = 0

\* An I/O operation fails only while the failure budget lasts.
MayFail(ok) == ok \/ failures < MaxFailures
Count(ok) == IF ok THEN failures ELSE failures + 1
Outcomes(oks) == IF failures < MaxFailures THEN oks ELSE oks \ {FALSE}

(* ------------------------------ startup ------------------------------- *)
\* A FileNotFoundError or PermissionError of the startup reaches __main__,
\* which logs and prints it; the script then ends.
Fatal ==
    /\ pc' = "fatal"
    /\ exit_status' = ExitOk

\* check_mount that only logs a missing destination.
CheckMountNoRaise ==
    /\ pc = "check_mount"
    /\ pc' = "check_permissions"
    /\ UNCHANGED <<mounted, library, originals, scanned, exit_status, src, dest, hash_cache,
                   todo, remaining, cur, total_files, copied_files, skipped_files,
                   run, fstate, hfail, ifail, last_cd, failures>>

CheckMount ==
    /\ pc = "check_mount"
    /\ IF mounted
       THEN pc' = "check_permissions" /\ UNCHANGED exit_status
       ELSE Fatal
    /\ UNCHANGED <<mounted, library, originals, scanned, src, dest, hash_cache, todo,
                   remaining, cur, total_files, copied_files, skipped_files, run,
                   fstate, hfail, ifail, last_cd, failures>>

\* granted: the user grants access while the script waits at its prompt.
CheckPermissions(granted) ==
    /\ pc = "check_permissions"
    /\ CASE library = "ok" ->
              pc' = "find_originals" /\ UNCHANGED <<library, exit_status>>
         [] library = "denied" /\ granted ->
              pc' = "find_originals" /\ library' = "ok" /\ UNCHANGED exit_status
         [] OTHER ->
              Fatal /\ UNCHANGED library
    /\ UNCHANGED <<mounted, originals, scanned, src, dest, hash_cache, todo,
                   remaining, cur, total_files, copied_files, skipped_files, run,
                   fstate, hfail, ifail, last_cd, failures>>

FindOriginals ==
    /\ pc = "find_originals"
    /\ IF originals
       THEN pc' = "mkdir_root" /\ UNCHANGED exit_status
       ELSE Fatal
    /\ UNCHANGED <<mounted, library, originals, scanned, src, dest, hash_cache, todo,
                   remaining, cur, total_files, copied_files, skipped_files, run,
                   fstate, hfail, ifail, last_cd, failures>>

\* DESTINATION.mkdir(parents=True, exist_ok=True)
MkdirRoot ==
    /\ pc = "mkdir_root"
    /\ mounted' = TRUE
    /\ pc' = "start"
    /\ UNCHANGED <<library, originals, scanned, exit_status, src, dest, hash_cache, todo,
                   remaining, cur, total_files, copied_files, skipped_files, run,
                   fstate, hfail, ifail, last_cd, failures>>

Startup ==
    \/ CheckMount
    \/ \E granted \in BOOLEAN : CheckPermissions(granted)
    \/ FindOriginals
    \/ MkdirRoot

(* ---------------------- build_destination_hash_cache ------------------ *)
BuildStart ==
    /\ pc = "start"
    /\ hash_cache' = EmptyCache
    /\ todo' = FilesOf(dest)
    /\ pc' = "build"
    /\ last_cd' = NoCall
    /\ scanned' = <<>>
    /\ UNCHANGED <<mounted, library, originals, exit_status,
                   src, dest, remaining, cur, total_files, copied_files,
                   skipped_files, run, fstate, hfail, ifail, failures>>

\* BuildStep that keeps the path a digest already maps to.
BuildStepFirstWins(q, hashOk) ==
    /\ pc = "build"
    /\ q \in todo
    /\ MayFail(hashOk)
    /\ todo' = todo \ {q}
    /\ hash_cache' = IF hashOk /\ Digest(dest[q]) \notin DOMAIN hash_cache
                     THEN Put(hash_cache, Digest(dest[q]), q)
                     ELSE hash_cache
    /\ failures' = Count(hashOk)
    /\ scanned' = Append(scanned, [path |-> q, hashed |-> hashOk])
    /\ UNCHANGED <<mounted, library, originals, exit_status,
                   src, dest, pc, remaining, cur, total_files, copied_files,
                   skipped_files, run, fstate, hfail, ifail, last_cd>>

BuildStep(q, hashOk) ==
    /\ pc = "build"
    /\ q \in todo
    /\ MayFail(hashOk)
    /\ todo' = todo \ {q}
    /\ hash_cache' = IF hashOk THEN Put(hash_cache, Digest(dest[q]), q) ELSE hash_cache
    /\ failures' = Count(hashOk)
    /\ scanned' = Append(scanned, [path |-> q, hashed |-> hashOk])
    /\ UNCHANGED <<mounted, library, originals, exit_status,
                   src, dest, pc, remaining, cur, total_files, copied_files,
                   skipped_files, run, fstate, hfail, ifail, last_cd>>

BuildDone ==
    /\ pc = "build"
    /\ todo = {}
    /\ total_files' = Cardinality(DOMAIN src)
    /\ copied_files' = 0
    /\ skipped_files' = 0
    /\ remaining' = DOMAIN src
    /\ pc' = "walk"
    /\ scanned' = <<>>
    /\ UNCHANGED <<mounted, library, originals, exit_status,
                   src, dest, hash_cache, todo, cur, run, fstate, hfail, ifail,
                   last_cd, failures>>

(* --------------------------- the walk loop ---------------------------- *)
\* SkipNonMedia that also registers the file's digest in hash_cache.
SkipNonMediaIndexed(p) ==
    /\ pc = "walk"
    /\ p \in remaining
    /\ ~IsMedia(p)
    /\ remaining' = remaining \ {p}
    /\ skipped_files' = skipped_files + 1
    /\ fstate' = [fstate EXCEPT ![p] = "Skipped"]
    /\ hash_cache' = Put(hash_cache, Digest(src[p]), p)
    /\ last_cd' = NoCall
    /\ UNCHANGED <<mounted, library, originals, scanned, exit_status,
                   src, dest, pc, todo, cur, total_files,
                   copied_files, run, hfail, ifail, failures>>

SkipNonMedia(p) ==
    /\ pc = "walk"
    /\ p \in remaining
    /\ ~IsMedia(p)
    /\ remaining' = remaining \ {p}
    /\ skipped_files' = skipped_files + 1
    /\ fstate' = [fstate EXCEPT ![p] = "Skipped"]
    /\ last_cd' = NoCall
    /\ UNCHANGED <<mounted, library, originals, scanned, exit_status,
                   src, dest, hash_cache, pc, todo, cur, total_files,
                   copied_files, run, hfail, ifail, failures>>

\* One call of check_duplicate and the branch taken on its result.  oks holds
\* the outcomes the I/O operations of the call may have (TRUE: success).
Classify(p, oks) ==
    /\ pc = "walk"
    /\ p \in remaining
    /\ IsMedia(p)
    /\ remaining' = remaining \ {p}
    /\ \E r \in { check_duplicate(order, dest, hash_cache, src[p], srcStatOk,
                                  statFail, hashOk) :
                    order \in Orders(FilesOf(dest)),
                    srcStatOk \in Outcomes(oks),
                    statFail \in {NoPath} \cup (IF FALSE \in Outcomes(oks)
                                                THEN FilesOf(dest) ELSE {}),
                    hashOk \in Outcomes(oks) } :
         LET ok == ~r.hash_failed /\ r.result # "Raise"
         IN  /\ MayFail(ok)
             /\ failures' = Count(ok)
             /\ last_cd' = [file |-> p, result |-> r.result, hashes |-> r.hashes,
                             hash_failed |-> r.hash_failed]
             /\ hfail' = IF r.hash_failed THEN hfail \cup {p} ELSE hfail
             /\ CASE r.result = "True" ->
                       /\ skipped_files' = skipped_files + 1
                       /\ fstate' = [fstate EXCEPT ![p] = "Skipped"]
                       /\ pc' = "walk"
                       /\ cur' = NoPath
                  [] r.result = "False" ->
                       /\ fstate' = [fstate EXCEPT ![p] = "Processing"]
                       /\ pc' = "mkdir"
                       /\ cur' = p
                       /\ UNCHANGED skipped_files
                  [] OTHER ->
                       /\ fstate' = [fstate EXCEPT ![p] = "Processing"]
                       /\ pc' = "aborted"
                       /\ cur' = p
                       /\ UNCHANGED skipped_files
             /\ exit_status' = IF r.result = "Raise" THEN ExitOk ELSE exit_status
    /\ UNCHANGED <<mounted, library, originals, scanned,
                   src, dest, hash_cache, todo, total_files, copied_files, run, ifail>>

Mkdir(ok) ==
    /\ pc = "mkdir"
    /\ MayFail(ok)
    /\ pc' = IF ok THEN "rsync" ELSE "aborted"
    /\ failures' = Count(ok)
    /\ last_cd' = NoCall
    /\ exit_status' = IF ok THEN exit_status ELSE ExitOk
    /\ UNCHANGED <<mounted, library, originals, scanned,
                   src, dest, hash_cache, todo, remaining, cur, total_files,
                   copied_files, skipped_files, run, fstate, hfail, ifail>>

\* RsyncOk that drops the file into the destination root, without its
\* relative directories.
RsyncOkFlat ==
    /\ pc = "rsync"
    /\ dest' = [dest EXCEPT ![0] = src[cur]]
    /\ copied_files' = copied_files + 1
    /\ fstate' = [fstate EXCEPT ![cur] = "Copied"]
    /\ pc' = "index"
    /\ UNCHANGED <<mounted, library, originals, scanned, exit_status,
                   src, hash_cache, todo, remaining, cur, total_files,
                   skipped_files, run, hfail, ifail, last_cd, failures>>

RsyncOk ==
    /\ pc = "rsync"
    /\ dest' = [dest EXCEPT ![cur] = src[cur]]
    /\ copied_files' = copied_files + 1
    /\ fstate' = [fstate EXCEPT ![cur] = "Copied"]
    /\ pc' = "index"
    /\ UNCHANGED <<mounted, library, originals, scanned, exit_status,
                   src, hash_cache, todo, remaining, cur, total_files,
                   skipped_files, run, hfail, ifail, last_cd, failures>>

\* RsyncFail with the failed file merged into the skipped count.
RsyncFailCountedAsSkipped ==
    /\ pc = "rsync"
    /\ MayFail(FALSE)
    /\ fstate' = [fstate EXCEPT ![cur] = "Errored"]
    /\ skipped_files' = skipped_files + 1
    /\ failures' = Count(FALSE)
    /\ pc' = "walk"
    /\ cur' = NoPath
    /\ UNCHANGED <<mounted, library, originals, scanned, exit_status,
                   src, dest, hash_cache, todo, remaining, total_files,
                   copied_files, run, hfail, ifail, last_cd>>

RsyncFail ==
    /\ pc = "rsync"
    /\ MayFail(FALSE)
    /\ fstate' = [fstate EXCEPT ![cur] = "Errored"]
    /\ failures' = Count(FALSE)
    /\ pc' = "walk"
    /\ cur' = NoPath
    /\ UNCHANGED <<mounted, library, originals, scanned, exit_status,
                   src, dest, hash_cache, todo, remaining, total_files,
                   copied_files, skipped_files, run, hfail, ifail, last_cd>>

\* IndexUpdate without the insert into hash_cache.
IndexUpdateNoInsert(hashOk) ==
    /\ pc = "index"
    /\ MayFail(hashOk)
    /\ ifail' = IF hashOk THEN ifail ELSE ifail \cup {cur}
    /\ failures' = Count(hashOk)
    /\ pc' = "walk"
    /\ cur' = NoPath
    /\ UNCHANGED <<mounted, library, originals, scanned, exit_status,
                   src, dest, hash_cache, todo, remaining, total_files, copied_files,
                   skipped_files, run, fstate, hfail, last_cd>>

\* IndexUpdate that starts hash_cache afresh from the copied file.
IndexUpdateRebuild(hashOk) ==
    /\ pc = "index"
    /\ MayFail(hashOk)
    /\ hash_cache' = IF hashOk THEN Put(EmptyCache, Digest(src[cur]), cur) ELSE hash_cache
    /\ ifail' = IF hashOk THEN ifail ELSE ifail \cup {cur}
    /\ failures' = Count(hashOk)
    /\ pc' = "walk"
    /\ cur' = NoPath
    /\ UNCHANGED <<mounted, library, originals, scanned, exit_status,
                   src, dest, todo, remaining, total_files, copied_files,
                   skipped_files, run, fstate, hfail, last_cd>>

IndexUpdate(hashOk) ==
    /\ pc = "index"
    /\ MayFail(hashOk)
    /\ hash_cache' = IF hashOk THEN Put(hash_cache, Digest(src[cur]), cur) ELSE hash_cache
    /\ ifail' = IF hashOk THEN ifail ELSE ifail \cup {cur}
    /\ failures' = Count(hashOk)
    /\ pc' = "walk"
    /\ cur' = NoPath
    /\ UNCHANGED <<mounted, library, originals, scanned, exit_status,
                   src, dest, todo, remaining, total_files, copied_files,
                   skipped_files, run, fstate, hfail, last_cd>>

Summary ==
    /\ pc = "walk"
    /\ remaining = {}
    /\ pc' = "done"
    /\ last_cd' = NoCall
    /\ exit_status' = ExitOk
    /\ UNCHANGED <<mounted, library, originals, scanned,
                   src, dest, hash_cache, todo, remaining, cur, total_files,
                   copied_files, skipped_files, run, fstate, hfail, ifail, failures>>

\* The script is invoked again on the same source and destination.
Rerun ==
    /\ pc = "done"
    /\ run < MaxRuns
    /\ run' = run + 1
    /\ pc' = "check_mount"
    /\ fstate' = [p \in SrcPaths |-> "Pending"]
    /\ hfail' = {}
    /\ ifail' = {}
    /\ exit_status' = NoExit
    /\ UNCHANGED <<mounted, library, originals, scanned,
                   src, dest, hash_cache, todo, remaining, cur, total_files,
                   copied_files, skipped_files, last_cd, failures>>

Build ==
    \/ BuildStart
    \/ \E q \in DestPaths, hashOk \in BOOLEAN : BuildStep(q, hashOk)
    \/ BuildDone

Walk ==
    \/ \E p \in SrcPaths : SkipNonMedia(p)
    \/ \E p \in SrcPaths : Classify(p, BOOLEAN)
    \/ \E ok \in BOOLEAN : Mkdir(ok)
    \/ RsyncOk
    \/ RsyncFail
    \/ \E hashOk \in BOOLEAN : IndexUpdate(hashOk)
    \/ Summary

\* One invocation of the script, in which I/O operations may fail.
Next == Startup \/ Build \/ Walk

Spec == Init /\ [][Next]_vars

\* Successive invocations in which no I/O operation fails.
NextTwice ==
    \/ CheckMount
    \/ CheckPermissions(TRUE)
    \/ FindOriginals
    \/ MkdirRoot
    \/ BuildStart
    \/ \E q \in DestPaths : BuildStep(q, TRUE)
    \/ BuildDone
    \/ \E p \in SrcPaths : SkipNonMedia(p)
    \/ \E p \in SrcPaths : Classify(p, {TRUE})
    \/ Mkdir(TRUE)
    \/ RsyncOk
    \/ IndexUpdate(TRUE)
    \/ Summary
    \/ Rerun

\* build_destination_hash_cache alone, over a destination of up to
\* MaxBuildFiles files, entered after a successful startup.
InitBuild ==
    /\ src = [p \in SrcPaths |-> OtherContent]
    /\ mounted = TRUE
    /\ library = "ok"
    /\ originals = TRUE
    /\ dest \in { d \in [DestPaths -> Contents \cup {NoFile}] :
                    Cardinality(FilesOf(d)) <= MaxBuildFiles }
    /\ exit_status = NoExit
    /\ scanned = <<>>
    /\ hash_cache = EmptyCache
    /\ pc = "start"
    /\ todo = {}
    /\ remaining = {}
    /\ cur = NoPath
    /\ total_files = 0
    /\ copied_files = 0
    /\ skipped_files = 0
    /\ run = 1
    /\ fstate = [p \in SrcPaths |-> "Pending"]
    /\ hfail = {}
    /\ ifail = {}
    /\ last_cd = NoCall
    /\ failures = 0

SpecBuild == InitBuild /\ [][Build]_vars

SpecTwice == Init /\ [][NextTwice]_vars

(* ------------------------------ claims -------------------------------- *)
MediaFiles == { p \in SrcPaths : IsMedia(p) }
WalkPhase == { "walk", "mkdir", "rsync", "index", "done", "aborted" }
RunEnded == pc \in { "done", "aborted" }
InDest(c) == c \in ContentsOf(dest)

\* C1: after a complete run in which no I/O operation failed, the destination
\* holds a byte-identical file for every source file with an allow-listed
\* extension.
C1_EveryMediaFileBackedUp ==
    (pc = "done" /\ failures = 0) => \A p \in MediaFiles : InDest(src[p])

\* C2: whenever check_duplicate returns True for a source file, the
\* destination holds, at that moment, a file with that source file's bytes.
C2_NoFalseDuplicate ==
    last_cd.result = "True" => InDest(src[last_cd.file])

\* C3: of two source files with identical bytes and allow-listed extensions,
\* at most one is copied in a run.
C3_IdenticalBytesCopiedOnce ==
    \A p, q \in MediaFiles :
        (p # q /\ src[p] = src[q]) => ~(fstate[p] = "Copied" /\ fstate[q] = "Copied")

\* C4: a second run on the unchanged source and on the destination as the first
\* run left it, no I/O operation failing in either, performs zero copies.
C4_SecondRunCopiesNothing ==
    (run = 2 /\ pc = "done") => copied_files = 0

\* C5: in every state after build_destination_hash_cache has returned, every
\* entry digest -> path of hash_cache names a destination file whose content
\* has that digest.
C5_IndexMatchesDestination ==
    pc \in WalkPhase =>
        \A h \in DOMAIN hash_cache :
            /\ IsFile(dest, hash_cache[h])
            /\ Digest(dest[hash_cache[h]]) = h

\* The index is completely built: nothing is left to visit and, when no hash
\* failed, every destination file's digest is a key (the file just copied
\* excepted until its insert).
IndexBuilt ==
    pc \in WalkPhase =>
        /\ todo = {}
        /\ failures = 0 =>
              \A q \in FilesOf(dest) :
                  (pc = "index" /\ q = cur) \/ Digest(dest[q]) \in DOMAIN hash_cache

C7_CopyFailureIsolated ==
    [][ /\ (pc' \in {"mkdir", "rsync"}) =>
              UNCHANGED <<src, dest, hash_cache, copied_files, skipped_files>>
        /\ (pc = "rsync" /\ pc' # "index") =>
              /\ UNCHANGED <<src, dest, hash_cache, copied_files, skipped_files,
                             total_files, remaining>>
              /\ pc' = "walk"
              /\ fstate'[cur] = "Errored"
      ]_vars

\* The copy of a file failed after another file was copied, and files remain.
C7_Witness ==
    /\ pc = "walk"
    /\ remaining # {}
    /\ \E a, b \in SrcPaths : fstate[a] = "Copied" /\ fstate[b] = "Errored"
    /\ copied_files = 1

\* C8: a source file whose hashing failed inside check_duplicate ends the run
\* Errored: it is not copied and is counted neither as copied nor as skipped.
C8_HashFailureIsError ==
    pc = "done" => \A p \in hfail : fstate[p] = "Errored"

\* C9: no I/O failure on a single source file ends the run before the summary.
C9_PerFileFailureNeverEscapes ==
    pc # "aborted"

Errored == { p \in SrcPaths : fstate[p] = "Errored" }

Counted ==
    /\ \A p \in SrcPaths : fstate[p] \in {"Skipped", "Copied", "Errored"}
    /\ copied_files + skipped_files + Cardinality(Errored) = total_files
    /\ skipped_files = Cardinality(SrcPaths \ MediaFiles)
                         + Cardinality({ p \in MediaFiles : fstate[p] = "Skipped" })
    /\ copied_files = Cardinality({ p \in SrcPaths : fstate[p] = "Copied" })

\* C10: when the run has ended every source file is in exactly one of the
\* states Skipped, Copied, Errored; copied + skipped + errored = total;
\* skipped_files counts the non-allow-listed files plus the duplicates and
\* copied_files the files whose copy succeeded.
C10_EveryFileTerminalAndCounted ==
    RunEnded => Counted

\* The counts of C10 in the runs that reach the summary.
CountedAtSummary ==
    pc = "done" => Counted

\* C11: a source file whose lower-cased extension is not in VALID_EXTENSIONS
\* is never classified (hence never hashed) and never copied; the step that
\* takes it leaves the destination and hash_cache unchanged and adds exactly
\* one to skipped_files, whatever its bytes.
C11_NonMediaOnlySkipped ==
    [][ \A p \in SrcPaths \ MediaFiles :
          /\ cur' # p
          /\ last_cd'.file # p
          /\ fstate'[p] \in {"Pending", "Skipped"}
          /\ (p \in remaining /\ p \notin remaining') =>
                /\ UNCHANGED <<src, dest, hash_cache, copied_files>>
                /\ skipped_files' = skipped_files + 1
                /\ fstate'[p] = "Skipped"
      ]_vars

\* A non-media file with the bytes of a media file has been skipped while the
\* media file was copied.
C11_Witness ==
    \E p \in SrcPaths \ MediaFiles, q \in MediaFiles :
        /\ fstate[p] = "Skipped"
        /\ fstate[q] = "Copied"
        /\ src[p] = src[q]
        /\ skipped_files = 1

StartupPhase == { "check_mount", "check_permissions", "find_originals", "mkdir_root" }

\* Nothing of the run proper has happened: no index, no file classified or
\* copied.
NothingProcessed ==
    /\ hash_cache = EmptyCache
    /\ todo = {}
    /\ remaining = {}
    /\ last_cd = NoCall
    /\ copied_files = 0
    /\ skipped_files = 0
    /\ \A p \in SrcPaths : fstate[p] = "Pending"

FatalStartupHolds ==
    /\ ~mounted => pc \in {"check_mount", "fatal"}
    /\ library # "ok" => pc \in {"check_mount", "check_permissions", "fatal"}
    /\ ~originals => pc \in {"check_mount", "check_permissions", "find_originals", "fatal"}
    /\ pc \in StartupPhase \cup {"fatal"} => NothingProcessed

\* C12: while the destination root does not exist, or the source root is
\* inaccessible or has no originals folder, the run is in its startup or has
\* aborted; an aborted startup has built no index and classified or copied no
\* file, leaves the destination as it was, and a missing destination root is
\* never created.
C12_FatalStartupAborts ==
    [][ /\ FatalStartupHolds'
        /\ ~mounted => ~mounted'
        /\ pc' = "fatal" => dest' = dest
      ]_vars

\* The run has aborted because the destination root does not exist.
C12_Witness ==
    pc = "fatal" /\ ~mounted /\ library = "ok" /\ originals

\* C13: the process ends with a failure exit status exactly when the run was
\* aborted by a fatal startup error.
C13_FailureExitIffFatalStartup ==
    exit_status # NoExit => (exit_status # ExitOk <=> pc = "fatal")

\* The last check_duplicate call returned a verdict and could hash the source.
Classified ==
    /\ last_cd.file # NoPath
    /\ last_cd.result \in {"True", "False"}
    /\ ~last_cd.hash_failed

\* C14: the size pre-filter does not change the verdict: for a source file
\* whose hash can be computed, check_duplicate returns True exactly when the
\* file's digest is a key of hash_cache.
C14_VerdictIsIndexMembership ==
    Classified =>
        (last_cd.result = "True" <=> Digest(src[last_cd.file]) \in DOMAIN hash_cache)

\* Some destination file has the size of source file p.
SizeMatch(p) ==
    \E q \in FilesOf(dest) : Size(dest[q]) = Size(src[p])

\* C15: check_duplicate hashes the source file only if some destination file
\* has its size, and at most once per call; without a size match the file is
\* classified as non-duplicate without being hashed.
C15_HashOnlyOnSizeMatch ==
    last_cd.file # NoPath =>
        /\ last_cd.hashes <= 1
        /\ last_cd.hashes = 1 => SizeMatch(last_cd.file)
        /\ (~SizeMatch(last_cd.file) /\ last_cd.result # "Raise") =>
               (last_cd.result = "False" /\ last_cd.hashes = 0)

\* A source file was classified against a destination that holds files, none
\* of its size.
C15_Witness ==
    /\ last_cd.file # NoPath
    /\ FilesOf(dest) # {}
    /\ ~SizeMatch(last_cd.file)
    /\ last_cd.result = "False"
    /\ last_cd.hashes = 0

\* Positions of `scanned` whose file was hashed.
Hashed == { i \in 1..Len(scanned) : scanned[i].hashed }

\* The file enumerated last among the hashed files of digest h.
LastScanned(h) ==
    LET I == { i \in Hashed : Digest(dest[scanned[i].path]) = h }
    IN  scanned[CHOOSE i \in I : \A j \in I : j <= i].path

\* C16: while build_destination_hash_cache runs, the keys of hash_cache are
\* the digests of the destination files enumerated so far whose hash could be
\* computed, each mapped to the file of that digest enumerated last; when it
\* ends every destination file has been enumerated once.
C16_BuildIndexesHashableFiles ==
    pc = "build" =>
        /\ DOMAIN hash_cache = { Digest(dest[scanned[i].path]) : i \in Hashed }
        /\ \A h \in DOMAIN hash_cache : hash_cache[h] = LastScanned(h)
        /\ todo = {} =>
              /\ { scanned[i].path : i \in 1..Len(scanned) } = FilesOf(dest)
              /\ Len(scanned) = Cardinality(FilesOf(dest))

\* The build has ended over two destination files of the same content.
C16_Witness ==
    /\ pc = "build"
    /\ todo = {}
    /\ Len(scanned) = 2
    /\ Hashed = {1, 2}
    /\ dest[scanned[1].path] = dest[scanned[2].path]
    /\ hash_cache[Digest(dest[scanned[2].path])] = scanned[2].path

InWalk == pc \in WalkPhase

\* C17: after the initial build no step removes a key of hash_cache;
\* hash_cache changes only in the step that follows a successful copy, which
\* adds at most one key; the steps that skip a file or fail its copy leave
\* hash_cache unchanged.
C17_IndexOnlyGrows ==
    [][ InWalk =>
          /\ DOMAIN hash_cache \subseteq DOMAIN hash_cache'
          /\ hash_cache' # hash_cache =>
                /\ pc = "index"
                /\ fstate[cur] = "Copied"
                /\ Cardinality(DOMAIN hash_cache' \ DOMAIN hash_cache) <= 1
      ]_vars

\* A copy has added a key to an index that the build had filled.
C17_Witness ==
    /\ pc = "walk"
    /\ copied_files = 1
    /\ ifail = {}
    /\ Cardinality(DOMAIN hash_cache) = 2

C19_DestinationContentPreserved ==
    [][ /\ ContentsOf(dest) \subseteq ContentsOf(dest')
        /\ src' = src
      ]_vars

=============================================================================
